---- MODULE Spec2Model ----
(***************************************************************************)
(* State-machine model of usv_script.py: the retry loop of                 *)
(* login_and_schedule and the functions it drives                          *)
(* (launch_browser_in_incognito, login, navigate_to_appointment,           *)
(* check_and_reschedule, select_date_and_time).  The web driver is the     *)
(* environment: every driver call draws its outcome (a value read from the *)
(* page, or a raised exception) from a small set.                          *)
(***************************************************************************)
EXTENDS Integers, Sequences, FiniteSets, TLC

\* ------------------------------------------------------------------ bounds
MaxCycles == 3      \* cycles of the while True loop that are explored
MaxLocs == 3        \* options the facility selector lists at most
MaxTimes == 3       \* options the time dropdown lists at most

\* ------------------------------------------------------- values and inputs
NoneVal == "None"

Truthy_NotNone(v) == v # NoneVal

\* Python truthiness of a str-or-None value (lines 72, 80).
Truthy(v) == v # NoneVal /\ v # ""

SeqsUpTo(S, n) == UNION {[1..k -> S] : k \in 0..n}

LocValues == {"A", "B"}
TimeValues == {"", "09:00", "10:30"}
DateValues == {NoneVal, "", "2024-05-01"}
RaisedKinds == {"TimeoutError", "Exception"}

\* hrefs of the continue link, as the sequence of their path segments
DigitSegs == {"12345"}
Hrefs ==
  { <<"en-ca", "niv", "schedule", "12345", "continue_actions">>,
    <<"schedule", "12345", "continue_actions">>,
    <<"schedule", "abc", "continue_actions">>,
    <<"groups", "12345", "continue_actions">>,
    <<"schedule", "continue_actions">>,
    <<"continue_actions">>,
    <<"schedule", "12345", "appointment">> }
NoLink == <<>>      \* the page holds no such link

VARIABLES
  pc,             \* position of the single thread of control
  cycle,          \* number of the current iteration of the while loop
  browserVar,     \* local `browser`: 0 = unbound, else the cycle that made it
  contextVar,     \* local `context`: likewise
  pageVar,        \* local `page`: likewise
  browserCloses,  \* close() calls made so far on the object bound to `browser`
  contextCloses,  \* close() calls made so far on the object bound to `context`
  launched,       \* objects launch_browser_in_incognito made in this cycle
  exc,            \* exception in flight in login_and_schedule
  handler,        \* except clause that ran in this cycle
  calls,          \* functions login_and_schedule invoked in this cycle
  booked,         \* the `break` of line 136 was taken
  delays,         \* time.sleep(RETRY_INTERVAL) calls completed, whole run
  href,           \* href of the continue link read in this cycle
  appointment,    \* appointment_number extracted in this cycle
  options,        \* facility options enumerated by this cycle's sweep
  idx,            \* position of the for loop in options
  visited,        \* location values passed to select_option in this sweep
  button,         \* state of #appointments_submit seen for the location
  noSlotLog,      \* locations logged "No available appointments" (line 115)
  scanCalls,      \* driver calls of the select_date_and_time call at idx
  busySeen,       \* what it saw of #consulate_date_time_not_available
  scanRet,        \* its return value: "none" (not returned), "True", "False"
  scanErr,        \* its except branch (lines 89-91) ran
  dateValue,      \* available_date read at line 71
  timeOptions,    \* option values the time dropdown lists, in document order
  selectedTime,   \* value passed to time_dropdown.select_option
  handlers,       \* dialog handlers registered on the page (line 110)
  clicks,         \* submit clicks of this sweep, with what led to each
  ret,            \* return value of check_and_reschedule: "none","True","False"
  sweepErr,       \* its except branch (lines 120-122) ran
  offered,        \* options the facility selector of this cycle's page lists
  completedClicks \* submit clicks that returned without raising, whole run

orchVars == <<pc, cycle, browserVar, contextVar, pageVar, browserCloses,
              contextCloses, launched, exc, handler, calls, booked,
              delays, href, appointment>>
scanVars == <<scanCalls, busySeen, scanRet, scanErr, dateValue, timeOptions,
              selectedTime>>
sweepVars == <<options, idx, visited, button, noSlotLog, handlers, clicks,
               ret, sweepErr, offered>>
orchVarsNoPc == <<cycle, browserVar, contextVar, pageVar, browserCloses,
                  contextCloses, launched, exc, handler, calls,
                  booked, delays, href, appointment>>
vars == <<orchVars, sweepVars, scanVars, completedClicks>>

Init ==
  /\ pc = "loop"
  /\ cycle = 0
  /\ browserVar = 0 /\ contextVar = 0 /\ pageVar = 0
  /\ browserCloses = 0 /\ contextCloses = 0
  /\ launched = {}
  /\ exc = "none"
  /\ handler = "none"
  /\ calls = <<>>
  /\ booked = FALSE
  /\ delays = 0
  /\ href = NoLink
  /\ appointment = NoneVal
  /\ options = <<>> /\ idx = 0 /\ visited = <<>> /\ button = "none"
  /\ noSlotLog = <<>> /\ handlers = 0 /\ clicks = <<>>
  /\ ret = "none" /\ sweepErr = FALSE
  /\ offered = <<>>
  /\ completedClicks = 0
  /\ scanCalls = <<>> /\ busySeen = "none"
  /\ scanRet = "none" /\ scanErr = FALSE
  /\ dateValue = NoneVal /\ timeOptions = <<>> /\ selectedTime = NoneVal

\* ------------------------------------------------------------ orchestrator

\* State local to one iteration of the while loop: check_and_reschedule and
\* select_date_and_time keep everything in locals of a fresh call.
FreshSweep ==
  /\ options' = <<>> /\ idx' = 0 /\ visited' = <<>> /\ button' = "none"
  /\ noSlotLog' = <<>> /\ handlers' = 0 /\ clicks' = <<>>
  /\ ret' = "none" /\ sweepErr' = FALSE
  /\ offered' = <<>>

FreshScan ==
  /\ scanCalls' = <<>> /\ busySeen' = "none"
  /\ scanRet' = "none" /\ scanErr' = FALSE
  /\ dateValue' = NoneVal /\ timeOptions' = <<>> /\ selectedTime' = NoneVal

\* launch_browser_in_incognito, lines 26-28: the objects that exist when the
\* call named by `stage` raises ("ok": none raises).
LaunchStages == {"launch", "new_context", "new_page", "ok"}
Created(stage) ==
  CASE stage = "launch" -> {}
    [] stage = "new_context" -> {"browser"}
    [] stage = "new_page" -> {"browser", "context"}
    [] stage = "ok" -> {"browser", "context", "page"}

Launch_IgnoresFailure(stage, kind) ==
  /\ pc = "loop"
  /\ cycle < MaxCycles
  /\ cycle' = cycle + 1
  /\ launched' = Created(stage)
  /\ handler' = "none"
  /\ calls' = <<"launch_browser_in_incognito">>
  /\ href' = NoLink
  /\ appointment' = NoneVal
  /\ FreshSweep /\ FreshScan
  /\ exc' = "none"
  /\ pc' = "login"
  /\ IF stage = "ok"
       THEN /\ browserVar' = cycle' /\ contextVar' = cycle' /\ pageVar' = cycle'
            /\ browserCloses' = 0 /\ contextCloses' = 0
       ELSE UNCHANGED <<browserVar, contextVar, pageVar, browserCloses,
                        contextCloses>>
  /\ UNCHANGED <<booked, delays, completedClicks>>

\* Line 127 and 129 with lines 24-29: the loop body starts, the session is
\* created and, only when all three calls succeed, bound to the locals by the
\* tuple assignment of line 129.
Launch(stage, kind) ==
  /\ pc = "loop"
  /\ UNCHANGED completedClicks
  /\ cycle < MaxCycles
  /\ cycle' = cycle + 1
  /\ launched' = Created(stage)
  /\ handler' = "none"
  /\ calls' = <<"launch_browser_in_incognito">>
  /\ href' = NoLink
  /\ appointment' = NoneVal
  /\ FreshSweep /\ FreshScan
  /\ IF stage = "ok"
       THEN /\ browserVar' = cycle' /\ contextVar' = cycle' /\ pageVar' = cycle'
            /\ browserCloses' = 0 /\ contextCloses' = 0
            /\ exc' = "none"
            /\ pc' = "login"
       ELSE /\ exc' = kind
            /\ pc' = "except"
            /\ UNCHANGED <<browserVar, contextVar, pageVar, browserCloses,
                           contextCloses>>
  /\ UNCHANGED <<booked, delays>>

LoginOutcomes == {"ok"} \cup RaisedKinds

Login_Swallows(out) ==
  /\ pc = "login"
  /\ calls' = Append(calls, "login")
  /\ pc' = "navigate"
  /\ exc' = IF out = "ok" THEN exc ELSE out
  /\ UNCHANGED <<cycle, browserVar, contextVar, pageVar, browserCloses,
                 contextCloses, launched, handler, booked, delays,
                 href, appointment>>
  /\ UNCHANGED <<sweepVars, scanVars, completedClicks>>

\* login, lines 31-47: both except clauses log and re-raise.
Login(out) ==
  /\ pc = "login"
  /\ UNCHANGED completedClicks
  /\ calls' = Append(calls, "login")
  /\ IF out = "ok"
       THEN pc' = "navigate" /\ exc' = exc
       ELSE pc' = "except" /\ exc' = out
  /\ UNCHANGED <<cycle, browserVar, contextVar, pageVar, browserCloses,
                 contextCloses, launched, handler, booked, delays,
                 href, appointment>>
  /\ UNCHANGED <<sweepVars, scanVars>>

\* Line 52: the selector a.button.primary.small[href*='continue_actions']
\* matches a link whose href contains continue_actions.
SelectorMatches(h) == \E i \in 1..Len(h) : h[i] = "continue_actions"

MatchAt_AnySegment(h) ==
  {i \in 1..Len(h) : /\ i + 2 <= Len(h)
                     /\ h[i] = "schedule"
                     /\ h[i + 2] = "continue_actions"}

\* Line 53: re.search(r"/schedule/(\d+)/continue_actions", href): the places
\* where the pattern matches, and group(1) of the leftmost match.
MatchAt(h) ==
  {i \in 1..Len(h) : /\ i + 2 <= Len(h)
                     /\ h[i] = "schedule"
                     /\ h[i + 1] \in DigitSegs
                     /\ h[i + 2] = "continue_actions"}
Group1(h) ==
  LET i == CHOOSE j \in MatchAt(h) : \A k \in MatchAt(h) : j <= k
  IN h[i + 1]

\* navigate_to_appointment, lines 49-60.  get_attribute waits for the link
\* and raises TimeoutError when none matches; re.search returns None on a
\* mismatch and .group raises AttributeError; page.goto may raise.
NavigateOutcome(link, goto) ==
  IF ~SelectorMatches(link) THEN "TimeoutError"
  ELSE IF MatchAt(link) = {} THEN "Exception"
  ELSE goto

Navigate(link, goto) ==
  /\ pc = "navigate"
  /\ UNCHANGED completedClicks
  /\ calls' = Append(calls, "navigate_to_appointment")
  /\ href' = link
  /\ LET out == NavigateOutcome(link, goto) IN
       /\ appointment' =
            IF SelectorMatches(link) /\ MatchAt(link) # {}
              THEN Group1(link) ELSE NoneVal
       /\ IF out = "ok"
            THEN pc' = "check" /\ exc' = exc
            ELSE pc' = "except" /\ exc' = out
  /\ UNCHANGED <<cycle, browserVar, contextVar, pageVar, browserCloses,
                 contextCloses, launched, handler, booked, delays>>
  /\ UNCHANGED <<sweepVars, scanVars>>

\* Lines 138-141: the clause that handles the exception in flight.
ExceptClause(kind) ==
  IF kind = "TimeoutError" THEN "except TimeoutError" ELSE "except Exception"

Caught_TimeoutOnly(kind) == kind = "TimeoutError"

\* Lines 138 and 140: every exception the body raises is a TimeoutError or
\* another Exception, and one of the two clauses catches it.
Caught(kind) == kind \in {"TimeoutError", "Exception"}

\* Lines 138-141: the matching clause logs and swallows the exception; one
\* that no clause matches stays in flight through the finally block.
Except ==
  /\ pc = "except"
  /\ UNCHANGED completedClicks
  /\ IF Caught(exc)
       THEN handler' = ExceptClause(exc) /\ exc' = "none"
       ELSE UNCHANGED <<handler, exc>>
  /\ pc' = "finally_context"
  /\ UNCHANGED <<cycle, browserVar, contextVar, pageVar, browserCloses,
                 contextCloses, launched, calls, booked, delays,
                 href, appointment>>
  /\ UNCHANGED <<sweepVars, scanVars>>

\* Lines 144, 146: 'context' in locals() / 'browser' in locals().
InLocals(v) == v # 0

\* Lines 144-145.
FinallyContext ==
  /\ pc = "finally_context"
  /\ UNCHANGED completedClicks
  /\ IF InLocals(contextVar)
       THEN contextCloses' = contextCloses + 1
       ELSE UNCHANGED contextCloses
  /\ pc' = "finally_browser"
  /\ UNCHANGED <<cycle, browserVar, contextVar, pageVar, browserCloses,
                 launched, exc, handler, calls, booked, delays, href,
                 appointment>>
  /\ UNCHANGED <<sweepVars, scanVars>>

\* Lines 146-147.
FinallyBrowser ==
  /\ pc = "finally_browser"
  /\ UNCHANGED completedClicks
  /\ IF InLocals(browserVar)
       THEN browserCloses' = browserCloses + 1
       ELSE UNCHANGED browserCloses
  /\ pc' = "finally_sleep"
  /\ UNCHANGED <<cycle, browserVar, contextVar, pageVar, contextCloses,
                 launched, exc, handler, calls, booked, delays, href,
                 appointment>>
  /\ UNCHANGED <<sweepVars, scanVars>>

AfterFinally_NeverLeaves(breaking) == "loop"

\* Where control goes after the finally block: out of the loop when the
\* break of line 136 is pending, else to the top of the while True loop.
AfterFinally(breaking) == IF breaking THEN "done" ELSE "loop"

FinallySleep_NotAfterBooking ==
  /\ pc = "finally_sleep"
  /\ delays' = IF booked THEN delays ELSE delays + 1
  /\ pc' = IF exc # "none" THEN "crashed" ELSE AfterFinally(booked)
  /\ UNCHANGED <<cycle, browserVar, contextVar, pageVar, browserCloses,
                 contextCloses, launched, exc, handler, calls, booked,
                 href, appointment>>
  /\ UNCHANGED <<sweepVars, scanVars, completedClicks>>

\* Line 148, then the end of the try statement: an exception still in
\* flight leaves login_and_schedule and ends the script.
FinallySleep ==
  /\ pc = "finally_sleep"
  /\ UNCHANGED completedClicks
  /\ delays' = delays + 1
  /\ pc' = IF exc # "none" THEN "crashed" ELSE AfterFinally(booked)
  /\ UNCHANGED <<cycle, browserVar, contextVar, pageVar, browserCloses,
                 contextCloses, launched, exc, handler, calls, booked,
                 href, appointment>>
  /\ UNCHANGED <<sweepVars, scanVars>>

\* ---------------------------------------------------- check_and_reschedule

SweepFails_Escapes ==
  /\ sweepErr' = TRUE
  /\ ret' = ret
  /\ pc' = "except"

\* Lines 120-122: any exception raised in the body of check_and_reschedule
\* is logged and the function returns False.
SweepFails ==
  /\ sweepErr' = TRUE
  /\ ret' = "False"
  /\ pc' = "check_return"

Enumerate_Stale(raises, list) ==
  /\ pc = "check"
  /\ calls' = Append(calls, "check_and_reschedule")
  /\ offered' = list
  /\ options' = <<"A", "B">>
  /\ idx' = 1
  /\ pc' = "for"
  /\ UNCHANGED <<cycle, browserVar, contextVar, pageVar, browserCloses,
                 contextCloses, launched, exc, handler, booked,
                 delays, href, appointment>>
  /\ UNCHANGED <<visited, button, noSlotLog, handlers, clicks, ret, sweepErr>>
  /\ UNCHANGED <<scanVars, completedClicks>>

\* Line 96: page.query_selector_all(... option[value]) is evaluated once; the
\* for loop then walks the list it returned.
Enumerate(raises, list) ==
  /\ pc = "check"
  /\ UNCHANGED completedClicks
  /\ calls' = Append(calls, "check_and_reschedule")
  /\ IF raises
       THEN SweepFails /\ UNCHANGED <<options, idx, offered>>
       ELSE /\ offered' = list
            /\ options' = list
            /\ idx' = 1
            /\ pc' = "for"
            /\ UNCHANGED <<ret, sweepErr>>
  /\ UNCHANGED <<cycle, browserVar, contextVar, pageVar, browserCloses,
                 contextCloses, launched, exc, handler, booked,
                 delays, href, appointment>>
  /\ UNCHANGED <<visited, button, noSlotLog, handlers, clicks>>
  /\ UNCHANGED scanVars

\* Line 102: wait_for_selector raises TimeoutError when #appointments_submit
\* does not appear within PAGE_TIMEOUT.
ButtonStates == {"absent", "removed", "disabled", "enabled", "raise"}
WaitTimesOut(btn) == btn = "absent"

ButtonUsable_IgnoresDisabled(btn) == btn \in {"enabled", "disabled"}

\* Line 104: reschedule_button and not reschedule_button.is_disabled().
\* "removed": the control was there for line 102 and query_selector (line 103)
\* returned None; "raise": is_disabled raised.
ButtonUsable(btn) == btn = "enabled"

\* Lines 97-104 for the option at idx: read it, select it, wait for the
\* submit control and test it.
SelectFailures == {"none", "inner_text", "select_option"}
SelectLocation(fail, btn) ==
  /\ pc = "for"
  /\ UNCHANGED completedClicks
  /\ UNCHANGED offered
  /\ idx <= Len(options)
  /\ FreshScan
  /\ visited' = IF fail = "inner_text" THEN visited
                ELSE Append(visited, options[idx])
  /\ IF fail # "none"
       THEN SweepFails /\ button' = "none"
       ELSE /\ button' = btn
            /\ IF WaitTimesOut(btn) \/ btn = "raise"
                 THEN SweepFails
                 ELSE /\ pc' = IF ButtonUsable(btn) THEN "scan_busy"
                               ELSE "no_appointment"
                      /\ UNCHANGED <<ret, sweepErr>>
  /\ UNCHANGED <<cycle, browserVar, contextVar, pageVar, browserCloses,
                 contextCloses, launched, exc, handler, calls, booked,
                 delays, href, appointment>>
  /\ UNCHANGED <<options, idx, noSlotLog, handlers, clicks>>

\* Lines 118-119: the for loop ran out of options.
SweepExhausted ==
  /\ pc = "for"
  /\ UNCHANGED completedClicks
  /\ UNCHANGED offered
  /\ idx > Len(options)
  /\ ret' = "False"
  /\ pc' = "check_return"
  /\ UNCHANGED <<cycle, browserVar, contextVar, pageVar, browserCloses,
                 contextCloses, launched, exc, handler, calls, booked,
                 delays, href, appointment>>
  /\ UNCHANGED <<options, idx, visited, button, noSlotLog, handlers, clicks,
                 sweepErr>>
  /\ UNCHANGED scanVars

\* Lines 115-116: log, sleep SLEEP_AFTER_SELECT, next iteration (the locals
\* of the finished select_date_and_time call are gone).
NoAppointment ==
  /\ pc = "no_appointment"
  /\ UNCHANGED completedClicks
  /\ UNCHANGED offered
  /\ noSlotLog' = Append(noSlotLog, options[idx])
  /\ idx' = idx + 1
  /\ pc' = "for"
  /\ UNCHANGED <<cycle, browserVar, contextVar, pageVar, browserCloses,
                 contextCloses, launched, exc, handler, calls, booked,
                 delays, href, appointment>>
  /\ UNCHANGED <<options, visited, button, handlers, clicks, ret, sweepErr>>
  /\ FreshScan

HandlersAtClick_ClickFirst(h) == h

\* Lines 110-111: page.on("dialog", handle_confirm) comes before the click,
\* so the click runs with one more handler registered.
HandlersAtClick(h) == h + 1

AfterClick_KeepsSweeping == "no_appointment"

\* Line 113: return True leaves the for loop and the function.
AfterClick == "check_return"

\* Lines 106-113: register the dialog handler, click submit, return True.
Submit(click) ==
  /\ pc = "submit"
  /\ UNCHANGED offered
  /\ handlers' = handlers + 1
  /\ clicks' = Append(clicks, [loc |-> options[idx], at |-> idx,
                               scan |-> scanRet, date |-> dateValue,
                               time |-> selectedTime,
                               handlers |-> HandlersAtClick(handlers),
                               ok |-> (click = "ok")])
  /\ completedClicks' = IF click = "ok" THEN completedClicks + 1
                         ELSE completedClicks
  /\ IF click = "ok"
       THEN ret' = "True" /\ pc' = AfterClick /\ UNCHANGED sweepErr
       ELSE SweepFails
  /\ UNCHANGED <<cycle, browserVar, contextVar, pageVar, browserCloses,
                 contextCloses, launched, exc, handler, calls, booked,
                 delays, href, appointment>>
  /\ UNCHANGED <<options, idx, visited, button, noSlotLog>>
  /\ FreshScan

Breaks_Never(r) == FALSE

\* Line 134: if check_and_reschedule(page): ... break
Breaks(r) == r = "True"

\* Lines 134-136: back in login_and_schedule with the sweep's return value.
CheckReturn ==
  /\ pc = "check_return"
  /\ UNCHANGED completedClicks
  /\ booked' = Breaks(ret)
  /\ pc' = "finally_context"
  /\ UNCHANGED <<cycle, browserVar, contextVar, pageVar, browserCloses,
                 contextCloses, launched, exc, handler, calls, delays,
                 href, appointment>>
  /\ UNCHANGED <<sweepVars, scanVars>>

\* ---------------------------------------------------- select_date_and_time

\* What select_date_and_time returning does to check_and_reschedule, line
\* 105: True goes on to the submit, False falls through to line 115.
ScanReturns(r) ==
  /\ scanRet' = r
  /\ pc' = IF r = "True" THEN "submit" ELSE "no_appointment"

ScanFails_Escapes ==
  /\ scanErr' = TRUE
  /\ scanRet' = "none"
  /\ pc' = "check_return"

\* Lines 89-91: any exception in the body is logged and False is returned.
ScanFails ==
  /\ scanErr' = TRUE
  /\ ScanReturns("False")

BusyShown_Never(busy) == FALSE

\* Line 66: busy_error and busy_error.is_visible().
BusyStates == {"absent", "hidden", "visible", "raise"}
BusyShown(busy) == busy = "visible"

\* Lines 65-68.  busy: what query_selector and is_visible report of the
\* "no availability" indicator ("raise": one of the two calls raises).
ScanBusy(busy) ==
  /\ pc = "scan_busy"
  /\ UNCHANGED completedClicks
  /\ scanCalls' = Append(scanCalls, "busy.query")
  /\ busySeen' = busy
  /\ IF busy = "raise" THEN ScanFails
     ELSE IF BusyShown(busy) THEN ScanReturns("False") /\ UNCHANGED scanErr
     ELSE pc' = "scan_date" /\ UNCHANGED <<scanRet, scanErr>>
  /\ UNCHANGED <<dateValue, timeOptions, selectedTime>>
  /\ UNCHANGED <<orchVarsNoPc, sweepVars>>

\* Lines 70-76.  click: outcome of the click on the date control; val: the
\* value attribute read back, or "raise" when the read raises.
ScanDate(click, val) ==
  /\ pc = "scan_date"
  /\ UNCHANGED completedClicks
  /\ scanCalls' = IF click = "ok"
                    THEN scanCalls \o <<"date.click", "date.read">>
                    ELSE Append(scanCalls, "date.click")
  /\ IF click # "ok" \/ val = "raise"
       THEN ScanFails /\ UNCHANGED dateValue
       ELSE /\ dateValue' = val
            /\ IF Truthy(val)
                 THEN pc' = "scan_time" /\ UNCHANGED <<scanRet, scanErr>>
                 ELSE ScanReturns("False") /\ UNCHANGED scanErr
  /\ UNCHANGED <<busySeen, timeOptions, selectedTime>>
  /\ UNCHANGED <<orchVarsNoPc, sweepVars>>

\* Line 79: query_selector_all("option[value]:not([value=''])") keeps, in
\* document order, the options that carry a non-empty value.
AvailableTimes(opts) == SelectSeq(opts, Truthy)

FirstAvailableTime_Earliest(opts) ==
  LET a == AvailableTimes(opts)
  IN IF \E i \in 1..Len(a) : a[i] = "09:00" THEN "09:00" ELSE Head(a)

\* Line 81: available_times[0].
FirstAvailableTime(opts) == Head(AvailableTimes(opts))

\* Lines 78-88.  dropdown: whether query_selector finds the time control
\* (None makes line 79 raise); opts: the option values it lists; sel: the
\* outcome of select_option.
ScanTime(dropdown, opts, sel) ==
  /\ pc = "scan_time"
  /\ UNCHANGED completedClicks
  /\ IF dropdown # "present"
       THEN /\ scanCalls' = Append(scanCalls, "time.query")
            /\ ScanFails
            /\ UNCHANGED <<timeOptions, selectedTime>>
       ELSE /\ timeOptions' = opts
            /\ IF AvailableTimes(opts) # <<>>
                 THEN /\ scanCalls' =
                           scanCalls \o <<"time.query", "time.options",
                                          "time.select">>
                      /\ selectedTime' = FirstAvailableTime(opts)
                      /\ IF sel = "ok"
                           THEN ScanReturns("True") /\ UNCHANGED scanErr
                           ELSE ScanFails
                 ELSE /\ scanCalls' =
                           scanCalls \o <<"time.query", "time.options">>
                      /\ ScanReturns("False")
                      /\ UNCHANGED <<scanErr, selectedTime>>
  /\ UNCHANGED <<busySeen, dateValue>>
  /\ UNCHANGED <<orchVarsNoPc, sweepVars>>

\* ------------------------------------------------------------ specification
Next ==
  \/ \E stage \in LaunchStages, kind \in RaisedKinds : Launch(stage, kind)
  \/ \E out \in LoginOutcomes : Login(out)
  \/ \E link \in Hrefs \cup {NoLink}, goto \in LoginOutcomes :
       Navigate(link, goto)
  \/ \E raises \in BOOLEAN, list \in SeqsUpTo(LocValues, MaxLocs) :
       Enumerate(raises, list)
  \/ \E fail \in SelectFailures, btn \in ButtonStates :
       SelectLocation(fail, btn)
  \/ SweepExhausted
  \/ \E busy \in BusyStates : ScanBusy(busy)
  \/ \E click \in {"ok", "raise"}, val \in DateValues \cup {"raise"} :
       ScanDate(click, val)
  \/ \E dropdown \in {"present", "absent"},
        opts \in SeqsUpTo(TimeValues, MaxTimes), sel \in {"ok", "raise"} :
       ScanTime(dropdown, opts, sel)
  \/ \E click \in {"ok", "raise"} : Submit(click)
  \/ NoAppointment
  \/ CheckReturn
  \/ Except
  \/ FinallyContext
  \/ FinallyBrowser
  \/ FinallySleep

Spec == Init /\ [][Next]_vars

\* The script is one sequential thread: whenever a step is possible the
\* interpreter takes it.
FairSpec == Spec /\ WF_vars(Next)

\* ------------------------------------------------------------------ claims

\* A cycle is over: control is back at the top of the loop, or out of it.
CycleOver == cycle >= 1 /\ pc \in {"loop", "done"}

\* C1: whatever way a cycle ends, the browser and the context that cycle
\* made have been closed exactly once when the cycle is over, and no
\* object has been closed twice.
C1_ReleasedExactlyOnce ==
  CycleOver =>
    /\ "browser" \in launched => browserVar = cycle /\ browserCloses = 1
    /\ "context" \in launched => contextVar = cycle /\ contextCloses = 1
    /\ InLocals(browserVar) => browserCloses = 1
    /\ InLocals(contextVar) => contextCloses = 1

\* C2: once check_and_reschedule has returned True, no step creates a
\* session, logs in, navigates or sweeps (no cycle starts and no function is
\* invoked any more), and the loop is left: every step moves one place
\* closer to the exit, and a step is possible until the exit is reached.
ExitRank(p) ==
  CASE p = "check_return" -> 4
    [] p = "finally_context" -> 3
    [] p = "finally_browser" -> 2
    [] p = "finally_sleep" -> 1
    [] OTHER -> 0
C2_TerminationOnSuccess ==
  /\ [][ret = "True" =>
          /\ ret' = "True"
          /\ cycle' = cycle
          /\ calls' = calls
          /\ pc' \in {"finally_context", "finally_browser", "finally_sleep",
                      "done"}
          /\ ExitRank(pc') < ExitRank(pc)]_vars
  /\ [](ret = "True" /\ pc # "done" => ENABLED Next)

C2_Witness == pc = "done" /\ ret = "True" /\ cycle < MaxCycles

\* C3: a cycle that ends without a booking never ends the process, however
\* many came before it: the script stops only after a booking, and from the
\* point where a cycle has failed (an exception reached login_and_schedule,
\* or the sweep returned False) every step moves one place closer to the top
\* of the loop, a step is always possible, the delay is taken, and the step
\* at the top of the loop starts the next cycle.
Retrying ==
  /\ ret # "True"
  /\ pc \in {"except", "check_return", "finally_context", "finally_browser",
             "finally_sleep", "loop"}
RetryRank(p) ==
  CASE p \in {"except", "check_return"} -> 4
    [] p = "finally_context" -> 3
    [] p = "finally_browser" -> 2
    [] p = "finally_sleep" -> 1
    [] p = "loop" -> 0
    [] OTHER -> 5
C3_UnboundedRetry ==
  /\ [](pc \in {"done", "crashed"} => pc = "done" /\ ret = "True")
  /\ [](Retrying /\ cycle < MaxCycles => ENABLED Next)
  /\ [](Retrying /\ pc = "loop" => delays = cycle)
  /\ [][Retrying =>
          IF pc = "loop"
            THEN cycle' = cycle + 1 /\ pc' \in {"login", "except"}
            ELSE cycle' = cycle /\ RetryRank(pc') < RetryRank(pc)]_vars

C3_Witness ==
  /\ cycle = MaxCycles /\ delays = MaxCycles - 1
  /\ pc = "login" /\ ~booked

\* C4: a location whose submit control is absent counts as NoSlot and the
\* sweep goes on to the next location: it is logged at line 115 and the
\* sweep does not fail there.
C4_AbsentSubmitIsNoSlot ==
  button = "absent" =>
    /\ ~sweepErr
    /\ pc \in {"no_appointment", "for"}
    /\ pc = "for" => /\ noSlotLog = SubSeq(options, 1, idx - 1)
                     /\ idx = Len(visited) + 1

\* C5: locations are selected in the order the selector lists them; when a
\* scan returns True at position idx, every earlier position was selected and
\* logged NoSlot, the submit click comes next and is made at that position,
\* and nothing is selected after it in that sweep.
C5_SweepOrder ==
  /\ [](/\ Len(visited) <= Len(options)
        /\ visited = SubSeq(options, 1, Len(visited))
        /\ scanRet = "True" =>
             /\ Len(visited) = idx
             /\ noSlotLog = SubSeq(options, 1, idx - 1)
             /\ clicks = <<>>
        /\ clicks # <<>> =>
             /\ Len(clicks) = 1
             /\ clicks[1].at = Len(visited)
             /\ clicks[1].loc = options[Len(visited)]
             /\ clicks[1].scan = "True"
             /\ noSlotLog = SubSeq(options, 1, Len(visited) - 1))
  /\ [][scanRet = "True" =>
          /\ Len(clicks') = 1
          /\ clicks'[1].at = idx
          /\ visited' = visited]_vars

C5_Witness ==
  /\ Len(options) = 3 /\ Len(visited) = 2
  /\ noSlotLog = <<options[1]>>
  /\ Len(clicks) = 1 /\ clicks[1].at = 2 /\ clicks[1].ok
  /\ pc = "done"

\* C6: whenever select_date_and_time has read the time options, the value it
\* selects is the first one in list order that is not empty, whatever the
\* times are; it selects nothing and returns False exactly when every option
\* is empty.
TimeRead == Len(scanCalls) >= 5 /\ scanCalls[5] = "time.options"
C7_BusyShortCircuit ==
  busySeen = "visible" =>
    /\ scanRet = "False" /\ ~scanErr
    /\ scanCalls = <<"busy.query">>
    /\ dateValue = NoneVal /\ timeOptions = <<>> /\ selectedTime = NoneVal
    /\ pc = "no_appointment"

C7_Witness == busySeen = "visible" /\ pc = "no_appointment"

\* C8: when the continue link is absent or its href does not hold
\* /schedule/<digits>/continue_actions, navigate_to_appointment raises, the
\* sweep is not run in that cycle, the session of the cycle is closed, the
\* delay is taken, and the next step at the top of the loop creates a
\* session.
GoodLinks ==
  { <<"en-ca", "niv", "schedule", "12345", "continue_actions">>,
    <<"schedule", "12345", "continue_actions">> }
NavFailed ==
  /\ Len(calls) >= 3 /\ calls[3] = "navigate_to_appointment"
  /\ href \notin GoodLinks
C8_NavigationFailure ==
  /\ [](NavFailed =>
          /\ Len(calls) = 3
          /\ ret = "none" /\ options = <<>> /\ visited = <<>>
          /\ pc \in {"except", "finally_context", "finally_browser",
                     "finally_sleep", "loop"}
          /\ pc \in {"finally_sleep", "loop"} =>
               /\ contextVar = cycle /\ contextCloses = 1
               /\ browserVar = cycle /\ browserCloses = 1
          /\ pc = "loop" => delays = cycle
          /\ cycle < MaxCycles => ENABLED Next)
  /\ [][NavFailed =>
          IF pc = "loop"
            THEN /\ cycle' = cycle + 1
                 /\ calls' = <<"launch_browser_in_incognito">>
            ELSE cycle' = cycle /\ RetryRank(pc') < RetryRank(pc)]_vars

C8_Witness ==
  /\ NavFailed /\ pc = "loop"
  /\ href = <<"schedule", "abc", "continue_actions">>

\* C9: once the except branch of check_and_reschedule has run, the sweep has
\* returned False, no further location is selected and no submit is clicked
\* in that cycle, and login_and_schedule goes through the finally block back
\* to the top of the loop.
C9_SweepFailureAborts ==
  /\ [](sweepErr =>
          /\ ret = "False" /\ ~booked
          /\ pc \in {"check_return", "finally_context", "finally_browser",
                     "finally_sleep", "loop"})
  /\ [][sweepErr /\ cycle' = cycle =>
          /\ visited' = visited
          /\ clicks' = clicks
          /\ sweepErr' /\ ret' = "False"]_vars

C9_Witness ==
  /\ sweepErr /\ pc = "loop"
  /\ Len(visited) >= 1 /\ Len(visited) < Len(options)

\* C10: when the except branch of select_date_and_time has run, the call
\* has returned False to check_and_reschedule, whose own except branch does
\* not run for it; the location is logged at line 115 and the for loop moves
\* to the next option.
C10_ScannerNeverFatal ==
  /\ [](scanErr =>
          /\ scanRet = "False"
          /\ pc = "no_appointment"
          /\ ~sweepErr /\ ret = "none")
  /\ [][scanErr =>
          /\ pc' = "for"
          /\ idx' = idx + 1
          /\ noSlotLog' = Append(noSlotLog, options[idx])
          /\ ~sweepErr' /\ ret' = "none"]_vars
  /\ [](pc = "for" => ~sweepErr /\ ret = "none" /\ Len(visited) = idx - 1)

C10_Witness ==
  /\ scanErr /\ idx < Len(options)
  /\ scanCalls = <<"busy.query", "date.click">>

\* C11: a submit click is made only after the scan of that location read a
\* non-empty date and selected a non-empty time; an empty or missing date,
\* or a time list without a non-empty option, never leads to a click.
Resolved(v) == v \notin {NoneVal, ""}
C11_SlotActionable ==
  /\ pc = "submit" =>
       /\ scanRet = "True"
       /\ Resolved(dateValue) /\ Resolved(selectedTime)
       /\ \E i \in 1..Len(timeOptions) : timeOptions[i] = selectedTime
  /\ \A i \in 1..Len(clicks) :
       /\ clicks[i].scan = "True"
       /\ Resolved(clicks[i].date) /\ Resolved(clicks[i].time)

C11_Witness ==
  /\ Len(clicks) = 1
  /\ clicks[1].date = "2024-05-01" /\ clicks[1].time = "10:30"

\* C12: in every cycle the functions are invoked in the order launch, login,
\* navigate, sweep, each only when every one before it in that cycle returned
\* without raising; after a login failure neither navigation nor the sweep
\* is invoked in that cycle.
CallOrder ==
  <<"launch_browser_in_incognito", "login", "navigate_to_appointment",
    "check_and_reschedule">>
C12_StepGating ==
  /\ [](/\ Len(calls) <= Len(CallOrder)
        /\ calls = SubSeq(CallOrder, 1, Len(calls)))
  /\ [](exc # "none" \/ handler # "none" =>
          pc \in {"except", "finally_context", "finally_browser",
                  "finally_sleep", "loop"})
  /\ [][cycle' = cycle /\ calls' # calls =>
          /\ exc = "none" /\ handler = "none"
          /\ Len(calls') = Len(calls) + 1]_vars
  /\ [][pc = "login" /\ exc' # "none" => pc' = "except"]_vars

C12_Witness ==
  /\ Len(calls) = 2 /\ handler = "except TimeoutError"
  /\ pc = "loop"

\* C13: for a location whose submit control is present but disabled the
\* scanner is not invoked and submit is not clicked, and the loop moves to the
\* next option; the scanner runs only for a control seen present and enabled.
ScanPcs == {"scan_busy", "scan_date", "scan_time", "submit"}
C13_DisabledSubmit ==
  /\ [](button = "disabled" =>
          /\ scanCalls = <<>> /\ scanRet = "none"
          /\ clicks = <<>> /\ ~sweepErr
          /\ pc \notin ScanPcs)
  /\ [](pc \in ScanPcs \/ scanCalls # <<>> => button = "enabled")
  /\ [][button = "disabled" /\ pc = "no_appointment" =>
          /\ pc' = "for" /\ idx' = idx + 1
          /\ visited' = visited]_vars

C13_Witness ==
  /\ button = "disabled" /\ pc = "for" /\ idx <= Len(options)
  /\ noSlotLog = visited

\* C14: every submit click is made with the dialog handler already
\* registered on the page.
C14_HandlerBeforeClick ==
  /\ \A i \in 1..Len(clicks) : clicks[i].handlers >= 1
  /\ handlers >= Len(clicks)

C14_Witness ==
  /\ Len(clicks) = 1 /\ clicks[1].handlers = 1 /\ clicks[1].ok
  /\ pc = "check_return"

\* C15: in a cycle that does not book, when the inter-cycle delay starts and
\* when the next cycle is about to start, no browser or context is still
\* open, and the delay has been taken before the next session is created.
LiveBrowser ==
  \/ "browser" \in launched /\ browserVar # cycle
  \/ InLocals(browserVar) /\ browserCloses = 0
LiveContext ==
  \/ "context" \in launched /\ contextVar # cycle
  \/ InLocals(contextVar) /\ contextCloses = 0
C15_RetryOrdering ==
  (~booked /\ pc \in {"finally_sleep", "loop"}) =>
    /\ ~LiveBrowser /\ ~LiveContext
    /\ pc = "loop" => delays = cycle

\* C16: every location a sweep selects is one the facility selector of this
\* cycle's page lists, at the same position, read by this cycle's call of
\* check_and_reschedule; the sweep starts with nothing kept from an earlier
\* cycle.
C16_LocationsReRead ==
  /\ Len(visited) <= Len(offered)
  /\ \A i \in 1..Len(visited) : visited[i] = offered[i]
  /\ visited # <<>> => Len(calls) = 4
  /\ pc = "check" => options = <<>> /\ visited = <<>>

C16_Witness ==
  /\ cycle = 2
  /\ offered = <<"B", "A">> /\ visited = <<"B", "A">>

\* C17: a sweep makes at most one submit click, the whole run sees at most
\* one click that returns without raising, the sweep returns True exactly
\* when its click returned without raising, and the break is taken exactly
\* after such a click, made for a scan that returned True.
C17_SingleClaim ==
  /\ Len(clicks) <= 1
  /\ completedClicks <= 1
  /\ ret = "True" <=> (Len(clicks) = 1 /\ clicks[1].ok)
  /\ booked <=> /\ completedClicks = 1
                /\ pc \in {"finally_context", "finally_browser",
                           "finally_sleep", "done"}
  /\ booked => Len(clicks) = 1 /\ clicks[1].ok /\ clicks[1].scan = "True"

C17_Witness ==
  /\ pc = "done" /\ booked /\ completedClicks = 1
  /\ cycle = MaxCycles

\* C18: login, navigate_to_appointment and check_and_reschedule run only with
\* `page` bound to the session this cycle created and not yet closed; in a
\* cycle whose session creation failed none of them is invoked.
PagePcs ==
  {"login", "navigate", "check", "for", "scan_busy", "scan_date",
   "scan_time", "submit", "no_appointment"}
C18_NoUseAfterRelease ==
  /\ pc \in PagePcs =>
       /\ pageVar = cycle /\ contextVar = cycle /\ browserVar = cycle
       /\ contextCloses = 0 /\ browserCloses = 0
  /\ (cycle >= 1 /\ "page" \notin launched) =>
       /\ calls = <<"launch_browser_in_incognito">>
       /\ pc \notin PagePcs

C18_Witness ==
  /\ cycle = 2 /\ "page" \notin launched /\ pageVar = 1
  /\ pc = "loop"

\* C19: every cycle, the one that books included, ends with the delay: the
\* delay is taken after the close calls of the finally block, the next cycle
\* starts or the script stops only after it, and the script never stops
\* without it.
C19_DelayOnEveryExit ==
  /\ [](pc \in {"loop", "done"} => delays = cycle)
  /\ [](pc = "done" => booked)
  /\ [][delays' # delays =>
          /\ delays' = delays + 1
          /\ pc = "finally_sleep" /\ pc' \in {"loop", "done"}
          /\ InLocals(contextVar) => contextCloses >= 1
          /\ InLocals(browserVar) => browserCloses >= 1]_vars
  /\ [][pc # "done" /\ pc' = "done" => booked /\ delays' = delays + 1]_vars

C19_Witness == pc = "done" /\ booked /\ cycle = 1 /\ delays = 1

====
